---- MODULE Spec2Model ----
(***************************************************************************)
(* A model of the gemini REST client (package gemini, gemini.go).          *)
(*                                                                         *)
(* The client value ga (BaseURL, ApiKey, ApiSecret, Nonce) is shared by    *)
(* the goroutines that call its methods.  Every method call is a frame     *)
(* that walks through the statements of the method; the statements that    *)
(* touch ga.Nonce or the network are separate steps, the local             *)
(* computations between them belong to the step that precedes them.        *)
(*                                                                         *)
(* Strings that the code concatenates (URLs, routes) are sequences of      *)
(* their parts; formatted numbers are sequences of characters; other       *)
(* strings are TLA+ strings.  base64, HMAC-SHA384 and hex are free         *)
(* constructors (injective, none the identity).                            *)
(***************************************************************************)
EXTENDS Integers, Sequences, FiniteSets, TLC

(***************************************************************************)
(* Bounds of the model.                                                    *)
(***************************************************************************)
\* method calls per behaviour
MaxCalls == 3
\* goroutines sharing the client in ConcSpec
NumProcs == 2
\* float64 inputs are (-1)^neg * mant * 2^-exp; the prices tried are
\* 0 .. MaxMant and 0 .. MaxMant times 2^-MaxExp, and a few more
MaxMant == 3
MaxExp == 3

Procs == 1 .. NumProcs

(***************************************************************************)
(* float64 values: finite dyadic rationals, NaN and the infinities.        *)
(***************************************************************************)
Fin(neg, mant, exp) == [kind |-> "fin", neg |-> neg, mant |-> mant, exp |-> exp]

NaN == [kind |-> "nan", neg |-> FALSE, mant |-> 0, exp |-> 0]

Inf(neg) == [kind |-> "inf", neg |-> neg, mant |-> 0, exp |-> 0]

IsFinite(f) == f.kind = "fin"

\* the prices the model passes to PlaceLimitOrder
Prices ==
    {Fin(FALSE, m, e) : m \in 0 .. MaxMant, e \in {0, MaxExp}}
        \cup {Fin(FALSE, 1023, 10), Fin(TRUE, 1, 3), NaN, Inf(FALSE), Inf(TRUE)}

\* the amounts the model passes to PlaceLimitOrder and Withdraw
Amounts ==
    {Fin(FALSE, 1, 0), Fin(FALSE, MaxMant, MaxExp), Fin(TRUE, 3, 1), NaN}

(***************************************************************************)
(* fmt.Sprintf("%0.<prec>f", f): strconv's exact decimal conversion of the *)
(* binary value, rounded half-to-even at prec digits; NaN and the          *)
(* infinities print as words.  The result is a sequence of characters.     *)
(***************************************************************************)
RECURSIVE Pow2(_)
Pow2(e) == IF e = 0 THEN 1 ELSE 2 * Pow2(e - 1)

DigitChar(d) ==
    CASE d = 0 -> "0" [] d = 1 -> "1" [] d = 2 -> "2" [] d = 3 -> "3"
      [] d = 4 -> "4" [] d = 5 -> "5" [] d = 6 -> "6" [] d = 7 -> "7"
      [] d = 8 -> "8" [] d = 9 -> "9"

\* the decimal digits of the natural number n, most significant first
RECURSIVE IntDigits(_)
IntDigits(n) == IF n < 10 THEN <<n>> ELSE Append(IntDigits(n \div 10), n % 10)

\* long division: the first n decimal digits of rem/D (rem < D)
RECURSIVE FracDigits(_, _, _)
FracDigits(rem, D, n) ==
    IF n = 0 THEN <<>>
    ELSE <<(rem * 10) \div D>> \o FracDigits((rem * 10) % D, D, n - 1)

\* what the long division leaves after n digits
RECURSIVE FracRem(_, _, _)
FracRem(rem, D, n) == IF n = 0 THEN rem ELSE FracRem((rem * 10) % D, D, n - 1)

\* a digit sequence plus one in its last place; the carry may add a leading 1
RECURSIVE IncDigits(_)
IncDigits(ds) ==
    IF ds = <<>>
    THEN <<1>>
    ELSE LET n == Len(ds)
         IN  IF ds[n] < 9
             THEN [ds EXCEPT ![n] = ds[n] + 1]
             ELSE Append(IncDigits(SubSeq(ds, 1, n - 1)), 0)

\* mant * 2^-exp rounded half-to-even to prec decimals, as the digits of the
\* integer part and the prec digits after the point
RoundedDigits(mant, exp, prec) ==
    LET D == Pow2(exp)
        all == IntDigits(mant \div D) \o FracDigits(mant % D, D, prec)
        rem == FracRem(mant % D, D, prec)
        up == \/ 2 * rem > D
              \/ 2 * rem = D /\ all[Len(all)] % 2 = 1
        res == IF up THEN IncDigits(all) ELSE all
    IN  [int |-> SubSeq(res, 1, Len(res) - prec),
         frac |-> SubSeq(res, Len(res) - prec + 1, Len(res))]

Chars(ds) == [i \in 1 .. Len(ds) |-> DigitChar(ds[i])]

FormatFloatNoPad(f, prec) ==
    CASE f.kind = "nan" -> <<"N", "a", "N">>
      [] f.kind = "inf" -> <<(IF f.neg THEN "-" ELSE "+"), "I", "n", "f">>
      [] OTHER ->
            LET r == RoundedDigits(f.mant, f.exp, prec)
                RECURSIVE Strip(_)
                Strip(ds) == IF ds # <<>> /\ ds[Len(ds)] = 0
                             THEN Strip(SubSeq(ds, 1, Len(ds) - 1)) ELSE ds
                fr == Strip(r.frac)
            IN  (IF f.neg THEN <<"-">> ELSE <<>>) \o Chars(r.int)
                    \o (IF fr = <<>> THEN <<>> ELSE <<".">> \o Chars(fr))

FormatFloat(f, prec) ==
    CASE f.kind = "nan" -> <<"N", "a", "N">>
      [] f.kind = "inf" -> <<(IF f.neg THEN "-" ELSE "+"), "I", "n", "f">>
      [] OTHER ->
            LET r == RoundedDigits(f.mant, f.exp, prec)
            IN  (IF f.neg THEN <<"-">> ELSE <<>>) \o Chars(r.int)
                    \o (IF prec > 0 THEN <<".">> \o Chars(r.frac) ELSE <<>>)


(***************************************************************************)
(* Program constants.                                                      *)
(***************************************************************************)
\* "%0.8f" for amounts, "%0.2f" and "%0.5f" for prices
AmountPrec == 8
UsdPricePrec == 2
BtcPricePrec == 5
\* resp.StatusCode > 399
MaxOkStatus == 399

(***************************************************************************)
(* Strings built by concatenation: sequences of parts.                     *)
(***************************************************************************)
\* fmt's %d of a natural number, as parts
Itoa(n) == Chars(IntDigits(n))

\* parts that make net/url's Parse fail: an unclosed "[" in the host, a bad
\* percent escape in the path
MalformedParts == {"http://[::1", "%zz"}

\* http.NewRequest / http.Get return an error for a URL that does not parse
URLParseFails(url) == \E i \in 1 .. Len(url) : url[i] \in MalformedParts

BaseURLs == {<<"https://api.sandbox.gemini.com/">>, <<"http://[::1">>}
Seeds == {5, 1000}
TickerPairs == {"btcusd", "%zz"}
Limits == {0, 1}
Currencies == {"btc", "%zz"}
Addresses == {"1DFCqM24Sg4mKJqXPDLmPsF2hCGZkXwVff"}
Sides == {"buy", "sell"}
OrderPairs == {"btcusd", "ethusd", "ethbtc", "BTCUSD", "ltcusd"}
ClientIds == {"order1"}
OptionLists == {<<"immediate-or-cancel">>}
Statuses == {200, MaxOkStatus, MaxOkStatus + 1}

(***************************************************************************)
(* Response bodies, as encoding/json sees them: a JSON object, a JSON      *)
(* array, bytes that are no JSON, no bytes at all.  An object's content is *)
(* what the GeminiError fields read from it.                               *)
(***************************************************************************)
NoContent == [result |-> "", reason |-> "", message |-> ""]

ErrBody ==
    [kind |-> "object",
     content |-> [result |-> "error", reason |-> "InvalidNonce",
                  message |-> "Nonce was not increasing"]]

ArrBody == [kind |-> "array", content |-> NoContent]

GarbageBody == [kind |-> "garbage", content |-> NoContent]

\* []byte{}
EmptyBody == [kind |-> "empty", content |-> NoContent]

\* a nil []byte
NilBytes == [kind |-> "nil", content |-> NoContent]

Bodies == {ErrBody, ArrBody, GarbageBody, EmptyBody}

(***************************************************************************)
(* Errors.                                                                 *)
(***************************************************************************)
MkErr(kind, c, code) ==
    [kind |-> kind, Result |-> c.result, Reason |-> c.reason,
     Message |-> c.message, StatusCode |-> code]

NilErr == MkErr("nil", NoContent, 0)

\* what json.Unmarshal returns for bytes it cannot decode into the target
JsonErr == MkErr("json", NoContent, 0)

\* what net/http returns when the request cannot be sent or parsed
TransportErr == MkErr("transport", NoContent, 0)

\* what ioutil.ReadAll returns when the body cannot be read
ReadErr == MkErr("read", NoContent, 0)

UnsupportedPairErr ==
    MkErr("errors.New",
          [result |-> "", reason |-> "", message |-> "Unsupported pair for placing orders"], 0)

\* a decoded GeminiError with the status code attached
GeminiError(c, code) == MkErr("GeminiError", c, code)

(***************************************************************************)
(* Requests (the Request interface's three implementations).               *)
(***************************************************************************)
NoRequest ==
    [type |-> "none", Request |-> <<>>, Nonce |-> 0, Symbol |-> "", Amount |-> <<>>,
     Price |-> <<>>, Side |-> "", Type |-> "", ClientId |-> "", Options |-> <<>>,
     Address |-> ""]

NewBaseRequest(route) == [NoRequest EXCEPT !.type = "BaseRequest", !.Request = route]

\* GetPayload: json.Marshal of the request, the fields in declaration order
\* (the embedded BaseRequest's first)
GetPayload(r) ==
    LET base == << <<"request", r.Request>>, <<"nonce", r.Nonce>> >>
    IN  CASE r.type = "WithdrawReq" ->
                base \o << <<"address", r.Address>>, <<"amount", r.Amount>> >>
          [] r.type = "OrderPlaceReq" ->
                base \o << <<"symbol", r.Symbol>>, <<"amount", r.Amount>>,
                           <<"price", r.Price>>, <<"side", r.Side>>,
                           <<"type", r.Type>>, <<"client_order_id", r.ClientId>>,
                           <<"options", r.Options>> >>
          [] OTHER -> base

\* the value of field key in a marshalled payload (<<>> when absent)
JsonField(payload, key) ==
    LET S == {i \in 1 .. Len(payload) : payload[i][1] = key}
    IN  IF S = {} THEN <<>> ELSE <<payload[CHOOSE i \in S : TRUE][2]>>

(***************************************************************************)
(* Encodings and the signature: free constructors.                         *)
(***************************************************************************)
Base64(bytes) == [enc |-> "base64", of |-> bytes]

HmacSha384(key, msg) == [mac |-> "hmac-sha384", key |-> key, msg |-> msg]

Hex(bytes) == [enc |-> "hex", of |-> bytes]

\* textproto.CanonicalMIMEHeaderKey, which Header.Add applies to the name
CanonicalMIMEHeaderKey(k) ==
    CASE k = "X-GEMINI-APIKEY" -> "X-Gemini-Apikey"
      [] k = "X-GEMINI-PAYLOAD" -> "X-Gemini-Payload"
      [] k = "X-GEMINI-SIGNATURE" -> "X-Gemini-Signature"
      [] OTHER -> k

\* http.Header.Add: append v to the values of the canonical name
HeaderAdd(h, k, v) ==
    LET ck == CanonicalMIMEHeaderKey(k)
    IN  [n \in DOMAIN h \cup {ck} |->
            IF n = ck THEN (IF ck \in DOMAIN h THEN Append(h[ck], v) ELSE <<v>>)
            ELSE h[n]]

NoHeader == [n \in {} |-> <<>>]

NoHTTPRequest == [method |-> "", url |-> <<>>, hasBody |-> FALSE, header |-> NoHeader]

SignedHeadersKeyAsSecret(apikey, apisecret, payload) ==
    LET base64Payload == Base64(payload)
        sig == HmacSha384(apikey, base64Payload)
    IN  HeaderAdd(HeaderAdd(HeaderAdd(NoHeader,
            "X-GEMINI-APIKEY", apikey),
            "X-GEMINI-PAYLOAD", base64Payload),
            "X-GEMINI-SIGNATURE", Hex(sig))

\* the three headers AuthAPIReq adds to the request
SignedHeaders(apikey, apisecret, payload) ==
    LET base64Payload == Base64(payload)
        sig == HmacSha384(apisecret, base64Payload)
    IN  HeaderAdd(HeaderAdd(HeaderAdd(NoHeader,
            "X-GEMINI-APIKEY", apikey),
            "X-GEMINI-PAYLOAD", base64Payload),
            "X-GEMINI-SIGNATURE", Hex(sig))

(***************************************************************************)
(* The status check at the end of AuthAPIReq: (body, err).                 *)
(***************************************************************************)
\* json.Unmarshal into a struct wants an object, into a slice an array
DecodesAs(body, shape) == body.kind = shape

CheckStatusOffByOne(status, body) ==
    IF status > MaxOkStatus + 1
    THEN IF DecodesAs(body, "object")
         THEN [body |-> NilBytes, err |-> GeminiError(body.content, status)]
         ELSE [body |-> NilBytes, err |-> JsonErr]
    ELSE [body |-> body, err |-> NilErr]

CheckStatus(status, body) ==
    IF status > MaxOkStatus
    THEN IF DecodesAs(body, "object")
         THEN [body |-> NilBytes, err |-> GeminiError(body.content, status)]
         ELSE [body |-> NilBytes, err |-> JsonErr]
    ELSE [body |-> body, err |-> NilErr]

\* what AuthAPIReq returns when building, sending or reading fails
FailedReturn == [body |-> EmptyBody, err |-> NilErr]

(***************************************************************************)
(* What each operation makes of AuthAPIReq's return.                       *)
(***************************************************************************)
AuthOps == {"GetFunds", "GetOrderStatus", "CancelAll", "Withdraw", "PlaceLimitOrder",
            "AuthAPIReq"}

PublicOps == {"GetTicker", "GetOrderbook"}

\* the JSON shape the operation decodes its response into
Shape(op) == IF op \in {"GetFunds", "GetOrderStatus"} THEN "array" ELSE "object"

\* the Go type of the operation's result
ResultType(op) ==
    CASE op = "GetFunds" -> "[]Fund"
      [] op = "GetOrderStatus" -> "[]Order"
      [] op = "Withdraw" -> "*WithdrawResponse"
      [] op = "PlaceLimitOrder" -> "Order"
      [] op = "GetTicker" -> "Ticker"
      [] op = "GetOrderbook" -> "Orderbook"
      [] op = "AuthAPIReq" -> "[]byte"
      [] OTHER -> "void"

\* zero: the empty value of the type (Order{}, []Fund{}, nil pointer)
Zero(op) == [type |-> ResultType(op), zero |-> TRUE, data |-> NilBytes]

Decoded(op, body) == [type |-> ResultType(op), zero |-> FALSE, data |-> body]

\* err != nil -> (zero, err); else json.Unmarshal(body) -> (zero, err) or (value, nil)
DecodeResult(op, body, err) ==
    IF err # NilErr THEN [val |-> Zero(op), err |-> err]
    ELSE IF DecodesAs(body, Shape(op)) THEN [val |-> Decoded(op, body), err |-> NilErr]
    ELSE [val |-> Zero(op), err |-> JsonErr]

CancelAllResultPropagating(authRet) == [val |-> Zero("CancelAll"), err |-> authRet.err]

\* CancelAll drops what AuthAPIReq returns
CancelAllResult(authRet) == [val |-> Zero("CancelAll"), err |-> NilErr]

OpResult(op, authRet) ==
    CASE op = "CancelAll" -> CancelAllResult(authRet)
      [] op = "AuthAPIReq" -> [val |-> Decoded(op, authRet.body), err |-> authRet.err]
      [] OTHER -> DecodeResult(op, authRet.body, authRet.err)

(***************************************************************************)
(* PlaceLimitOrder's price string: ok is FALSE for an unsupported pair.    *)
(***************************************************************************)
PriceStrAnyPair(pair, price) ==
    IF pair = "ethbtc"
    THEN [ok |-> TRUE, str |-> FormatFloat(price, BtcPricePrec)]
    ELSE [ok |-> TRUE, str |-> FormatFloat(price, UsdPricePrec)]

PriceStr(pair, price) ==
    IF pair = "btcusd" \/ pair = "ethusd"
    THEN [ok |-> TRUE, str |-> FormatFloat(price, UsdPricePrec)]
    ELSE IF pair = "ethbtc"
    THEN [ok |-> TRUE, str |-> FormatFloat(price, BtcPricePrec)]
    ELSE [ok |-> FALSE, str |-> <<>>]

(***************************************************************************)
(* State.                                                                  *)
(*   ga      the client: BaseURL, ApiKey, ApiSecret, Nonce                 *)
(*   frame   per goroutine, the method call it is in                       *)
(*   seed    the Nonce NewGeminiAPI set (history variable)                 *)
(*   nonces  the nonces given to requests by SetNonce, in order (history)  *)
(*   ncalls  the number of method calls begun (bounded by MaxCalls)        *)
(***************************************************************************)
VARIABLES ga, frame, seed, nonces, ncalls

vars == <<ga, frame, seed, nonces, ncalls>>

NoArgs ==
    [pair |-> "", side |-> "", client_id |-> "", amount |-> Fin(FALSE, 0, 0),
     price |-> Fin(FALSE, 0, 0), options |-> <<>>, currency |-> "", address |-> "",
     bidLimit |-> 0, askLimit |-> 0]

NoResponse == [got |-> FALSE, status |-> 0, body |-> NilBytes]

NoReturn == [val |-> Zero("none"), err |-> NilErr]

(***************************************************************************)
(* A frame: pc is the statement the call is at, op the method, args its    *)
(* arguments, r the Request, tmp the Nonce that ga.Nonce++ loaded, req the *)
(* http.Request, resp the response, fail the step that failed, authRet     *)
(* what AuthAPIReq returned, ret what the method returned.  History: k the *)
(* index in nonces of this call's nonce, nreq the HTTP requests the call   *)
(* handed to the transport, ga0 the client when the call began.            *)
(***************************************************************************)
IdleFrame(g) ==
    [pc |-> "idle", op |-> "none", args |-> NoArgs, r |-> NoRequest, tmp |-> 0,
     req |-> NoHTTPRequest, resp |-> NoResponse, fail |-> "none",
     authRet |-> [body |-> NilBytes, err |-> NilErr], ret |-> NoReturn,
     k |-> 0, nreq |-> 0, ga0 |-> g]

\* NewGeminiAPI: the nonce starts at time.Now().UnixNano()
NewGeminiAPI(baseurl, apikey, apisecret, now) ==
    [BaseURL |-> baseurl, ApiKey |-> apikey, ApiSecret |-> apisecret, Nonce |-> now]

Init ==
    /\ seed \in Seeds
    /\ \E b \in BaseURLs : ga = NewGeminiAPI(b, "<api key>", "<api secret>", seed)
    /\ frame = [p \in Procs |-> IdleFrame(ga)]
    /\ nonces = <<>>
    /\ ncalls = 0

(***************************************************************************)
(* Entering a method: the local statements up to the first access to       *)
(* ga.Nonce or to the network.                                             *)
(***************************************************************************)
\* goroutine p may begin a call
CanEnter(p) == frame[p].pc = "idle" /\ ncalls < MaxCalls

Enter(p, f) ==
    /\ CanEnter(p)
    /\ frame' = [frame EXCEPT ![p] = f]
    /\ ncalls' = ncalls + 1
    /\ UNCHANGED <<ga, seed, nonces>>

\* a method that hands request r to AuthAPIReq
EnterAuth(p, op, args, r) ==
    Enter(p, [IdleFrame(ga) EXCEPT !.pc = "auth_setnonce", !.op = op, !.args = args,
                                   !.r = r])

\* a method that calls http.Get(BaseURL + path); a URL that does not parse
\* is an error before anything is sent
EnterGet(p, op, args, path) ==
    LET url == ga.BaseURL \o path
        f == [IdleFrame(ga) EXCEPT !.op = op, !.args = args]
    IN  IF URLParseFails(url)
        THEN Enter(p, [f EXCEPT !.pc = "done", !.fail = "build",
                                !.ret = [val |-> Zero(op), err |-> TransportErr]])
        ELSE Enter(p, [f EXCEPT !.pc = "pub_get",
                                !.req = [NoHTTPRequest EXCEPT !.method = "GET", !.url = url]])

GetTicker(p) ==
    /\ CanEnter(p)
    /\ \E pair \in TickerPairs :
           EnterGet(p, "GetTicker", [NoArgs EXCEPT !.pair = pair], <<"/v1/pubticker/", pair>>)

GetOrderbook(p) ==
    /\ CanEnter(p)
    /\ \E pair \in TickerPairs, bidLimit \in Limits, askLimit \in Limits :
           EnterGet(p, "GetOrderbook",
                    [NoArgs EXCEPT !.pair = pair, !.bidLimit = bidLimit, !.askLimit = askLimit],
                    <<"/v1/book/", pair, "?limit_bids=">> \o Itoa(bidLimit)
                        \o <<"&limit_asks=">> \o Itoa(askLimit))

GetFunds(p) == EnterAuth(p, "GetFunds", NoArgs, NewBaseRequest(<<"/v1/balances">>))

GetOrderStatus(p) == EnterAuth(p, "GetOrderStatus", NoArgs, NewBaseRequest(<<"/v1/orders">>))

CancelAll(p) ==
    EnterAuth(p, "CancelAll", NoArgs, NewBaseRequest(<<"/v1/order/cancel/session">>))

Withdraw(p, currencies, amounts) ==
    /\ CanEnter(p)
    /\ \E currency \in currencies, address \in Addresses, amount \in amounts :
           LET amountStr == FormatFloat(amount, AmountPrec)
           IN  EnterAuth(p, "Withdraw",
                   [NoArgs EXCEPT !.currency = currency, !.address = address, !.amount = amount],
                   [NewBaseRequest(<<"/v1/withdraw/", currency>>) EXCEPT
                       !.type = "WithdrawReq", !.Address = address, !.Amount = amountStr])

PlaceLimitOrder(p, sides, pairs, amounts, prices) ==
    /\ CanEnter(p)
    /\ \E side \in sides, pair \in pairs, client_id \in ClientIds,
          amount \in amounts, price \in prices, options \in OptionLists :
           LET amountStr == FormatFloat(amount, AmountPrec)
               priceStr == PriceStr(pair, price)
               args == [NoArgs EXCEPT !.side = side, !.pair = pair, !.client_id = client_id,
                                      !.amount = amount, !.price = price, !.options = options]
           IN  IF ~priceStr.ok
               THEN Enter(p, [IdleFrame(ga) EXCEPT
                                 !.pc = "done", !.op = "PlaceLimitOrder", !.args = args,
                                 !.ret = [val |-> Zero("PlaceLimitOrder"),
                                          err |-> UnsupportedPairErr]])
               ELSE EnterAuth(p, "PlaceLimitOrder", args,
                       [NewBaseRequest(<<"/v1/order/new">>) EXCEPT
                           !.type = "OrderPlaceReq", !.Symbol = pair, !.Amount = amountStr,
                           !.Price = priceStr.str, !.Side = side, !.Type = "exchange limit",
                           !.ClientId = client_id, !.Options = options])

\* a caller's own Request handed to AuthAPIReq, its Nonce field already set
DirectRequests == {[NewBaseRequest(<<"/v1/mytrades">>) EXCEPT !.Nonce = 99]}

AuthAPIReq(p) == \E r \in DirectRequests : EnterAuth(p, "AuthAPIReq", NoArgs, r)

(***************************************************************************)
(* AuthAPIReq, statement by statement.                                     *)
(***************************************************************************)
\* the end of AuthAPIReq and of the method that called it
Return(f, fail, authRet) ==
    [f EXCEPT !.pc = "done", !.fail = fail, !.authRet = authRet,
              !.ret = OpResult(f.op, authRet)]

\* r.SetNonce(ga.Nonce)
AuthSetNonce(p) ==
    /\ frame[p].pc = "auth_setnonce"
    /\ frame' = [frame EXCEPT ![p] = [@ EXCEPT !.pc = "auth_load",
                                               !.r.Nonce = ga.Nonce,
                                               !.k = Len(nonces) + 1]]
    /\ nonces' = Append(nonces, ga.Nonce)
    /\ UNCHANGED <<ga, seed, ncalls>>

\* ga.Nonce++, the load
AuthNonceLoad(p) ==
    /\ frame[p].pc = "auth_load"
    /\ frame' = [frame EXCEPT ![p] = [@ EXCEPT !.pc = "auth_store", !.tmp = ga.Nonce]]
    /\ UNCHANGED <<ga, seed, nonces, ncalls>>

AuthNonceStoreSame(p) ==
    /\ frame[p].pc = "auth_store"
    /\ ga' = [ga EXCEPT !.Nonce = frame[p].tmp]
    /\ frame' = [frame EXCEPT ![p] = [@ EXCEPT !.pc = "auth_newreq"]]
    /\ UNCHANGED <<seed, nonces, ncalls>>

\* ga.Nonce++, the store
AuthNonceStore(p) ==
    /\ frame[p].pc = "auth_store"
    /\ ga' = [ga EXCEPT !.Nonce = frame[p].tmp + 1]
    /\ frame' = [frame EXCEPT ![p] = [@ EXCEPT !.pc = "auth_newreq"]]
    /\ UNCHANGED <<seed, nonces, ncalls>>

\* http.NewRequest("POST", BaseURL + route, nil), then the payload, its
\* base64, the signature and the three headers
AuthNewRequest(p) ==
    /\ frame[p].pc = "auth_newreq"
    /\ LET f == frame[p]
           reqURL == ga.BaseURL \o f.r.Request
       IN  frame' = [frame EXCEPT ![p] =
              IF URLParseFails(reqURL)
              THEN Return(f, "build", FailedReturn)
              ELSE [f EXCEPT !.pc = "auth_do",
                             !.req = [method |-> "POST", url |-> reqURL, hasBody |-> FALSE,
                                      header |-> SignedHeaders(ga.ApiKey, ga.ApiSecret,
                                                               GetPayload(f.r))]]]
    /\ UNCHANGED <<ga, seed, nonces, ncalls>>

\* the answers the transport may give: a status and a body
Responses(statuses, bodies) ==
    {[got |-> TRUE, status |-> s, body |-> b] : s \in statuses, b \in bodies}

\* every answer the model lets the transport give
AllResponses == Responses(Statuses, Bodies)

AuthDoRetry(p, resps) ==
    /\ frame[p].pc = "auth_do"
    /\ LET f == frame[p]
       IN  \/ /\ f.nreq < 2
              /\ frame' = [frame EXCEPT ![p] = [f EXCEPT !.nreq = f.nreq + 1]]
           \/ \E resp \in resps :
                frame' = [frame EXCEPT ![p] =
                   [f EXCEPT !.pc = "auth_read", !.nreq = f.nreq + 1, !.resp = resp]]
    /\ UNCHANGED <<ga, seed, nonces, ncalls>>

AuthDoRollback(p, resps) ==
    /\ frame[p].pc = "auth_do"
    /\ LET f == frame[p]
       IN  \/ /\ frame' = [frame EXCEPT ![p] =
                    Return([f EXCEPT !.nreq = f.nreq + 1], "send", FailedReturn)]
              /\ ga' = [ga EXCEPT !.Nonce = ga.Nonce - 1]
           \/ /\ \E resp \in resps :
                   frame' = [frame EXCEPT ![p] =
                      [f EXCEPT !.pc = "auth_read", !.nreq = f.nreq + 1, !.resp = resp]]
              /\ UNCHANGED ga
    /\ UNCHANGED <<seed, nonces, ncalls>>

\* client.Do(req): the transport fails, or answers with a status and a body
AuthDo(p, resps) ==
    /\ frame[p].pc = "auth_do"
    /\ LET f == frame[p]
       IN  \/ frame' = [frame EXCEPT ![p] =
                 Return([f EXCEPT !.nreq = f.nreq + 1], "send", FailedReturn)]
           \/ \E resp \in resps :
                frame' = [frame EXCEPT ![p] =
                   [f EXCEPT !.pc = "auth_read", !.nreq = f.nreq + 1, !.resp = resp]]
    /\ UNCHANGED <<ga, seed, nonces, ncalls>>

\* ioutil.ReadAll(resp.Body), then the status check
AuthReadBody(p) ==
    /\ frame[p].pc = "auth_read"
    /\ LET f == frame[p]
       IN  \/ frame' = [frame EXCEPT ![p] = Return(f, "read", FailedReturn)]
           \/ frame' = [frame EXCEPT ![p] =
                 Return(f, "none", CheckStatus(f.resp.status, f.resp.body))]
    /\ UNCHANGED <<ga, seed, nonces, ncalls>>

(***************************************************************************)
(* GetTicker and GetOrderbook after the URL is built.                      *)
(***************************************************************************)
\* http.Get(url)
PubGet(p) ==
    /\ frame[p].pc = "pub_get"
    /\ LET f == frame[p]
       IN  \/ frame' = [frame EXCEPT ![p] =
                 [f EXCEPT !.pc = "done", !.nreq = f.nreq + 1, !.fail = "send",
                           !.ret = [val |-> Zero(f.op), err |-> TransportErr]]]
           \/ \E status \in Statuses, body \in Bodies :
                frame' = [frame EXCEPT ![p] =
                   [f EXCEPT !.pc = "pub_read", !.nreq = f.nreq + 1,
                             !.resp = [got |-> TRUE, status |-> status, body |-> body]]]
    /\ UNCHANGED <<ga, seed, nonces, ncalls>>

\* ioutil.ReadAll(resp.Body), then json.Unmarshal; the status is not looked at
PubReadBody(p) ==
    /\ frame[p].pc = "pub_read"
    /\ LET f == frame[p]
       IN  \/ frame' = [frame EXCEPT ![p] =
                 [f EXCEPT !.pc = "done", !.fail = "read",
                           !.ret = [val |-> Zero(f.op), err |-> ReadErr]]]
           \/ frame' = [frame EXCEPT ![p] =
                 [f EXCEPT !.pc = "done",
                           !.ret = DecodeResult(f.op, f.resp.body, NilErr)]]
    /\ UNCHANGED <<ga, seed, nonces, ncalls>>

\* the caller has the result; the goroutine is free for its next call
Finish(p) ==
    /\ frame[p].pc = "done"
    /\ frame' = [frame EXCEPT ![p] = IdleFrame(ga)]
    /\ UNCHANGED <<ga, seed, nonces, ncalls>>

(***************************************************************************)
(* Spec: one goroutine uses the client, one call after the other.          *)
(***************************************************************************)
Next ==
    \E p \in {1} :
        \/ GetTicker(p)
        \/ GetOrderbook(p)
        \/ GetFunds(p)
        \/ GetOrderStatus(p)
        \/ CancelAll(p)
        \/ Withdraw(p, Currencies, Amounts)
        \/ PlaceLimitOrder(p, Sides, OrderPairs, Amounts, Prices)
        \/ AuthAPIReq(p)
        \/ AuthSetNonce(p)
        \/ AuthNonceLoad(p)
        \/ AuthNonceStore(p)
        \/ AuthNewRequest(p)
        \/ AuthDo(p, AllResponses)
        \/ AuthReadBody(p)
        \/ PubGet(p)
        \/ PubReadBody(p)
        \/ Finish(p)

Spec == Init /\ [][Next]_vars

(***************************************************************************)
(* ConcSpec: NumProcs goroutines call the authenticated methods of the     *)
(* same client; their statements interleave.  Nothing in the code orders   *)
(* the accesses to ga.Nonce.                                               *)
(***************************************************************************)
\* the inputs and answers tried in ConcSpec
ConcCurrencies == {"btc"}

ConcAmounts == {Fin(FALSE, 1, 0)}

ConcSides == {"buy"}

ConcPairs == {"btcusd", "ltcusd"}

ConcResponses == Responses({MaxOkStatus + 1}, {ErrBody})

ConcNext ==
    \E p \in Procs :
        \/ GetFunds(p)
        \/ GetOrderStatus(p)
        \/ CancelAll(p)
        \/ Withdraw(p, ConcCurrencies, ConcAmounts)
        \/ PlaceLimitOrder(p, ConcSides, ConcPairs, ConcAmounts, ConcAmounts)
        \/ AuthAPIReq(p)
        \/ AuthSetNonce(p)
        \/ AuthNonceLoad(p)
        \/ AuthNonceStore(p)
        \/ AuthNewRequest(p)
        \/ AuthDo(p, ConcResponses)
        \/ AuthReadBody(p)
        \/ Finish(p)

ConcSpec == Init /\ [][ConcNext]_vars

(***************************************************************************)
(* Vocabulary of the properties.                                           *)
(***************************************************************************)
\* the call has been through r.SetNonce
Prepared(f) == f.k > 0

\* the call has built its http.Request
Built(f) == f.req.method # ""

Returned(f) == f.pc = "done"

\* the payload the request carries: what its X-GEMINI-PAYLOAD header decodes to
HeaderValues(f, name) ==
    LET ck == CanonicalMIMEHeaderKey(name)
    IN  IF ck \in DOMAIN f.req.header THEN f.req.header[ck] ELSE <<>>

CarriedPayload(f) == HeaderValues(f, "X-GEMINI-PAYLOAD")[1].of

IsDigitChar(c) == c \in {"0", "1", "2", "3", "4", "5", "6", "7", "8", "9"}

\* str is digits, a point and exactly n digits, with an optional leading "-"
HasDecimals(str, n) ==
    LET len == Len(str)
        first == IF len > 0 /\ str[1] = "-" THEN 2 ELSE 1
    IN  /\ len - n - 1 >= first
        /\ str[len - n] = "."
        /\ \A i \in first .. len : i # len - n => IsDigitChar(str[i])

SupportedPairs == {"btcusd", "ethusd", "ethbtc"}

\* the number of decimals the spec gives the price of a supported pair
SpecPricePlaces(pair) == IF pair = "ethbtc" THEN 5 ELSE 2

\* the route the spec fixes for each authenticated operation
SpecRoute(f) ==
    CASE f.op = "GetFunds" -> <<"/v1/balances">>
      [] f.op = "GetOrderStatus" -> <<"/v1/orders">>
      [] f.op = "CancelAll" -> <<"/v1/order/cancel/session">>
      [] f.op = "Withdraw" -> <<"/v1/withdraw/", f.args.currency>>
      [] f.op = "PlaceLimitOrder" -> <<"/v1/order/new">>
      [] OTHER -> f.r.Request

AllIdle == \A p \in Procs : frame[p].pc = "idle"

NoncesDistinct ==
    \A i, j \in 1 .. Len(nonces) : i # j => nonces[i] # nonces[j]

(***************************************************************************)
(* C1.  One goroutine, one call after the other: the k-th authenticated    *)
(* call puts seed + k - 1 in the nonce field of its request (and of the    *)
(* payload it sends), and leaves ga.Nonce at seed + k.                     *)
(***************************************************************************)
C1_SequentialNonce ==
    /\ \A i \in 1 .. Len(nonces) : nonces[i] = seed + i - 1
    /\ \A p \in Procs :
         LET f == frame[p]
         IN  Prepared(f) =>
               /\ f.r.Nonce = seed + f.k - 1
               /\ Built(f) => JsonField(CarriedPayload(f), "nonce") = <<seed + f.k - 1>>
               /\ Returned(f) => ga.Nonce = seed + f.k
    /\ AllIdle => ga.Nonce = seed + Len(nonces)

\* the second authenticated call of a client has returned
C1_Witness ==
    \E p \in Procs : Returned(frame[p]) /\ frame[p].k = 2 /\ Built(frame[p])

(***************************************************************************)
(* C2.  Under concurrent use of one client every call carries a distinct   *)
(* nonce, and once all calls have returned ga.Nonce has grown by the       *)
(* number of calls.                                                        *)
(***************************************************************************)
C2_ConcurrentNonce ==
    /\ NoncesDistinct
    /\ AllIdle => ga.Nonce = seed + Len(nonces)

(***************************************************************************)
(* C3.  When building the request, sending it or reading the response body *)
(* fails, AuthAPIReq returns a non-nil error.                              *)
(***************************************************************************)
C3_TransportErrorReturned ==
    \A p \in Procs :
        LET f == frame[p]
        IN  f.op \in AuthOps /\ Returned(f) /\ f.fail \in {"build", "send", "read"}
                => f.authRet.err # NilErr

(***************************************************************************)
(* C4, as claimed.  Whenever the response has a status >= 400, AuthAPIReq  *)
(* returns no body and a GeminiError with that status code and the         *)
(* result, reason and message of the response body.  (Stated of the        *)
(* responses whose body AuthAPIReq could read: the claim takes the error's *)
(* fields from that body.)                                                 *)
(***************************************************************************)
IsGeminiErrorOf(err, resp) ==
    /\ err.kind = "GeminiError"
    /\ err.StatusCode = resp.status
    /\ err.Result = resp.body.content.result
    /\ err.Reason = resp.body.content.reason
    /\ err.Message = resp.body.content.message

C5_UnsupportedPair ==
    \A p \in Procs :
        LET f == frame[p]
        IN  f.op = "PlaceLimitOrder" /\ f.args.pair \notin SupportedPairs
                => /\ Returned(f)
                   /\ f.ret.err.kind = "errors.New"
                   /\ f.ret.err.Message = "Unsupported pair for placing orders"
                   /\ f.ret.val = Zero("PlaceLimitOrder")
                   /\ f.nreq = 0
                   /\ ~Built(f)
                   /\ ~Prepared(f)

\* the pair differs from a supported one only in case
C5_Witness ==
    \E p \in Procs :
        LET f == frame[p]
        IN  f.op = "PlaceLimitOrder" /\ f.args.pair = "BTCUSD" /\ Returned(f)

(***************************************************************************)
(* C6.  CancelAll returns no error whatever AuthAPIReq met; it hands at    *)
(* most one request to the transport, and exactly one, a signed POST to    *)
(* BaseURL + /v1/order/cancel/session, whenever the request could be       *)
(* built (so for every outcome of the request: transport failure, status   *)
(* >= 400, undecodable body, success).                                     *)
(***************************************************************************)
C6_CancelAllSwallows ==
    \A p \in Procs :
        LET f == frame[p]
        IN  f.op = "CancelAll" /\ Returned(f) =>
              /\ f.ret.err = NilErr
              /\ f.nreq <= 1
              /\ f.fail # "build" =>
                    /\ f.nreq = 1
                    /\ f.req.method = "POST"
                    /\ f.req.url = ga.BaseURL \o <<"/v1/order/cancel/session">>
                    /\ JsonField(CarriedPayload(f), "request")
                          = << <<"/v1/order/cancel/session">> >>
                    /\ HeaderValues(f, "X-GEMINI-SIGNATURE") # <<>>

\* AuthAPIReq returned an error to CancelAll
C6_Witness ==
    \E p \in Procs :
        LET f == frame[p]
        IN  f.op = "CancelAll" /\ Returned(f) /\ f.authRet.err # NilErr

(***************************************************************************)
(* C7.  No call hands more than one HTTP request to the transport, also    *)
(* when the request fails or is answered with an error status.             *)
(***************************************************************************)
C7_NoRetry == \A p \in Procs : frame[p].nreq <= 1

\* a call whose one request failed or was answered with an error status
C7_Witness ==
    \E p \in Procs :
        LET f == frame[p]
        IN  Returned(f) /\ f.nreq = 1 /\ (f.fail = "send" \/ f.resp.status >= 400)

(***************************************************************************)
(* C8, as claimed.  The price in PlaceLimitOrder's payload has exactly 2   *)
(* decimals for btcusd and ethusd and exactly 5 for ethbtc; the amount in  *)
(* the payloads of PlaceLimitOrder and Withdraw has exactly 8 decimals.    *)
(***************************************************************************)
C8_DecimalsAlways ==
    \A p \in Procs :
        LET f == frame[p]
        IN  /\ f.r.type = "OrderPlaceReq" =>
                 /\ HasDecimals(f.r.Price, SpecPricePlaces(f.args.pair))
                 /\ HasDecimals(f.r.Amount, 8)
            /\ f.r.type = "WithdrawReq" => HasDecimals(f.r.Amount, 8)

(***************************************************************************)
(* C8, amended.  For a finite price the price in PlaceLimitOrder's payload *)
(* has exactly 2 decimals for btcusd and ethusd and exactly 5 for ethbtc;  *)
(* for a finite amount the amount in the payloads of PlaceLimitOrder and   *)
(* Withdraw has exactly 8 decimals.  (NaN and the infinities are printed   *)
(* as NaN, +Inf, -Inf.)                                                    *)
(***************************************************************************)
C8_DecimalsFinite ==
    \A p \in Procs :
        LET f == frame[p]
            pl == CarriedPayload(f)
        IN  /\ f.r.type = "OrderPlaceReq" /\ IsFinite(f.args.price) =>
                 /\ HasDecimals(f.r.Price, SpecPricePlaces(f.args.pair))
                 /\ Built(f) => JsonField(pl, "price") = <<f.r.Price>>
            /\ f.r.type \in {"OrderPlaceReq", "WithdrawReq"} /\ IsFinite(f.args.amount) =>
                 /\ HasDecimals(f.r.Amount, 8)
                 /\ Built(f) => JsonField(pl, "amount") = <<f.r.Amount>>

\* an ethbtc order with a price that has to be rounded, its payload built
C8_Witness ==
    \E p \in Procs :
        LET f == frame[p]
        IN  /\ f.op = "PlaceLimitOrder" /\ f.args.pair = "ethbtc" /\ Built(f)
            /\ f.args.price = Fin(FALSE, 1023, 10) /\ IsFinite(f.args.amount)

(***************************************************************************)
(* C9.  Every request an authenticated operation builds is a POST to       *)
(* BaseURL + route without a body, the route being the one fixed for the   *)
(* operation and the request field of the payload; it has exactly the      *)
(* headers X-GEMINI-APIKEY (the key), X-GEMINI-PAYLOAD (base64 of the      *)
(* payload JSON, which holds the nonce given to the call) and              *)
(* X-GEMINI-SIGNATURE (hex of HMAC-SHA384 of that base64 under the         *)
(* secret); and no other request is handed to the transport.               *)
(***************************************************************************)
C9_SignedPost ==
    \A p \in Procs :
        LET f == frame[p]
            b64 == HeaderValues(f, "X-GEMINI-PAYLOAD")
        IN  f.op \in AuthOps =>
              /\ f.nreq > 0 => Built(f)
              /\ Built(f) =>
                   /\ f.req.method = "POST"
                   /\ f.req.url = ga.BaseURL \o SpecRoute(f)
                   /\ ~f.req.hasBody
                   /\ DOMAIN f.req.header =
                        {CanonicalMIMEHeaderKey(n) :
                            n \in {"X-GEMINI-APIKEY", "X-GEMINI-PAYLOAD", "X-GEMINI-SIGNATURE"}}
                   /\ HeaderValues(f, "X-GEMINI-APIKEY") = <<ga.ApiKey>>
                   /\ Len(b64) = 1
                   /\ b64[1].enc = "base64"
                   /\ JsonField(b64[1].of, "request") = <<SpecRoute(f)>>
                   /\ JsonField(b64[1].of, "nonce") = <<nonces[f.k]>>
                   /\ HeaderValues(f, "X-GEMINI-SIGNATURE")
                        = <<Hex(HmacSha384(ga.ApiSecret, b64[1]))>>

\* a withdrawal whose request went to the transport
C9_Witness ==
    \E p \in Procs : frame[p].op = "Withdraw" /\ frame[p].nreq = 1

(***************************************************************************)
(* C10.  GetTicker, GetOrderbook and a PlaceLimitOrder rejected for its    *)
(* pair leave the client as it was; no call changes it before its request  *)
(* is given a nonce; an authenticated call that was given one leaves Nonce *)
(* one higher and the rest unchanged, also when it failed; so no nonce is  *)
(* used twice.                                                             *)
(***************************************************************************)
C10_NonceFrame ==
    /\ \A p \in Procs :
         LET f == frame[p]
         IN  /\ f.pc # "idle" /\ ~Prepared(f) => ga = f.ga0
             /\ Returned(f) /\ Prepared(f) =>
                    ga = [f.ga0 EXCEPT !.Nonce = f.ga0.Nonce + 1]
    /\ NoncesDistinct

\* a second authenticated call that failed in the transport
C10_Witness ==
    \E p \in Procs :
        LET f == frame[p]
        IN  Returned(f) /\ f.k = 2 /\ f.fail = "send"

====
